---------------------------- MODULE Spec2Model ----------------------------
(***************************************************************************)
(* Model of openfga-graphviz-gen: the dotEncodingGraph multigraph          *)
(* (AddOrGetNode / AddEdge / RemoveNodesWithNoEdges), the graph builder    *)
(* (buildGraph / rewriteHandler), and the cycle report                     *)
(* (parseCycleInformation over gonum's topo.DirectedCyclesIn).             *)
(***************************************************************************)
EXTENDS Integers, Sequences, FiniteSets, TLC

VARIABLES
    model,   \* the AuthorizationModel: sequence of TypeDefinitions (input, sorted in place)
    g,       \* the dotEncodingGraph
    pc,      \* position of the running call
    ti,      \* index of the TypeDefinition being processed by buildGraph
    ri,      \* index of the relation (in sortedRelationNames) being processed
    todo,    \* userset rewrites on which WalkUsersetRewrite still invokes the handler
    calls,   \* AddEdge calls issued by the last rewriteHandler invocation
    requested, \* history: (from, to, headlabel) of every AddEdge call that returned
    info,    \* the CycleInformation returned by Writer
    builds   \* history: per buildGraph call, the model it was given and the graph it returned

vars == <<model, g, pc, ti, ri, todo, calls, requested, info, builds>>

(***************************************************************************)
(* Bounds                                                                  *)
(***************************************************************************)
\* graph-operation specification: number of lines a graph may hold
MaxEdges == 3
\* builder specification: children of a Union / Intersection
MaxChildren == 2
\* builder specification: RelatedTypeRefs of one relation
MaxRefs == 1
\* builder specification: buildGraph calls on one model
MaxBuilds == 2

(***************************************************************************)
(* dotEncodingGraph                                                        *)
(***************************************************************************)
\* the nil graph.Node that multi.DirectedGraph.Node returns for an absent id
Nil == -1

\* newDotEncodingGraph: empty multi.DirectedGraph (uid.Set maxID = -1, nothing
\* released), edgeCounter 0, empty mapping / reverseMapping / lines
newDotEncodingGraph ==
    [ nodes          |-> {},
      maxID          |-> -1,
      free           |-> {},
      mapping        |-> << >>,
      reverseMapping |-> << >>,
      lines          |-> << >>,
      edgeCounter    |-> 0 ]

\* multi.DirectedGraph.NewNode -> uid.Set.NewID: some released id when there is
\* one (Go map iteration picks it: c), else maxID + 1
NewID(gr, c) == IF c \in gr.free THEN c ELSE gr.maxID + 1

\* the ids NewID may return in graph gr
IDChoices(gr) == IF gr.free # {} THEN gr.free ELSE {gr.maxID + 1}

\* function update that also extends the domain (Go map assignment)
MapPut(m, k, v) == [x \in (DOMAIN m) \cup {k} |-> IF x = k THEN v ELSE m[x]]

\* a mutant of AddOrGetNode: a node is created for every request
AddOrGetNode_alwaysNew(gr, label, c) ==
    LET id == NewID(gr, c)
    IN [ g |-> [gr EXCEPT !.nodes = @ \cup {id},
                          !.free = @ \ {id},
                          !.maxID = IF id > @ THEN id ELSE @,
                          !.mapping = MapPut(@, label, id),
                          !.reverseMapping = MapPut(@, id, label)],
         n |-> id ]

\* AddOrGetNode(label): [g |-> graph afterwards, n |-> id of the returned node or Nil]
AddOrGetNode(gr, label, c) ==
    IF label \in DOMAIN gr.mapping
    THEN [ g |-> gr,
           n |-> IF gr.mapping[label] \in gr.nodes THEN gr.mapping[label] ELSE Nil ]
    ELSE LET id == NewID(gr, c)
         IN [ g |-> [gr EXCEPT !.nodes = @ \cup {id},
                               !.free = @ \ {id},
                               !.maxID = IF id > @ THEN id ELSE @,
                               !.mapping = MapPut(@, label, id),
                               !.reverseMapping = MapPut(@, id, label)],
              n |-> id ]

\* multi.DirectedGraph.Lines(u, v): indices of the lines from u to v
Lines(gr, u, v) ==
    {i \in 1..Len(gr.lines) : gr.lines[i].from = u /\ gr.lines[i].to = v}

\* the attributes AddEdge stores for a new line: label and headlabel, and the
\* style that rewriteHandler passes as fourth argument and that
\* parseCycleInformation reads back from g.lines
LineAttrs(counter, optionalHeadLabel, optionalStyle) ==
    [label |-> counter, headlabel |-> optionalHeadLabel, style |-> optionalStyle]

\* AddEdge dereferences a nil node when a label resolves to a removed node
AddEdgePanics(gr, from, to, c1, c2) ==
    LET r1 == AddOrGetNode(gr, from, c1)
        r2 == AddOrGetNode(r1.g, to, c2)
    IN r1.n = Nil \/ r2.n = Nil

\* a mutant of AddEdge: de-duplication by endpoints only (plain adjacency map)
AddEdge_endpointsOnly(gr, from, to, optionalHeadLabel, optionalStyle, c1, c2) ==
    LET r1 == AddOrGetNode(gr, from, c1)
        r2 == AddOrGetNode(r1.g, to, c2)
        g2 == r2.g
    IN IF Lines(g2, r1.n, r2.n) # {}
       THEN g2
       ELSE [g2 EXCEPT !.edgeCounter = @ + 1,
                       !.lines = Append(@, [from |-> r1.n, to |-> r2.n]
                                     @@ LineAttrs(g2.edgeCounter + 1, optionalHeadLabel, optionalStyle))]

\* a mutant of AddEdge: the counter is bumped before the duplicate check
AddEdge_countsDuplicates(gr, from, to, optionalHeadLabel, optionalStyle, c1, c2) ==
    LET r1 == AddOrGetNode(gr, from, c1)
        r2 == AddOrGetNode(r1.g, to, c2)
        g2 == [r2.g EXCEPT !.edgeCounter = @ + 1]
    IN IF \E i \in Lines(g2, r1.n, r2.n) : g2.lines[i].headlabel = optionalHeadLabel
       THEN g2
       ELSE [g2 EXCEPT !.lines = Append(@, [from |-> r1.n, to |-> r2.n]
                                     @@ LineAttrs(g2.edgeCounter, optionalHeadLabel, optionalStyle))]

\* AddEdge(from, to, optionalHeadLabel, optionalStyle): graph afterwards
\* (defined when AddEdgePanics is false)
AddEdge(gr, from, to, optionalHeadLabel, optionalStyle, c1, c2) ==
    LET r1 == AddOrGetNode(gr, from, c1)
        r2 == AddOrGetNode(r1.g, to, c2)
        g2 == r2.g
    IN IF \E i \in Lines(g2, r1.n, r2.n) : g2.lines[i].headlabel = optionalHeadLabel
       THEN g2    \* duplicate!
       ELSE [g2 EXCEPT !.edgeCounter = @ + 1,
                       !.lines = Append(@, [from |-> r1.n, to |-> r2.n]
                                     @@ LineAttrs(g2.edgeCounter + 1, optionalHeadLabel, optionalStyle))]

\* a mutant of NodesWithNoEdges: a line from a node to itself does not count
NodesWithNoEdges_ignoresSelfLoops(gr) ==
    {n \in gr.nodes : \A i \in 1..Len(gr.lines) :
        \/ gr.lines[i].from # n /\ gr.lines[i].to # n
        \/ gr.lines[i].from = gr.lines[i].to}

\* nodes that are neither source nor target of any line
NodesWithNoEdges(gr) ==
    {n \in gr.nodes : \A i \in 1..Len(gr.lines) : gr.lines[i].from # n /\ gr.lines[i].to # n}

\* RemoveNodesWithNoEdges: multi.DirectedGraph.RemoveNode on each such node
\* (the id is released; mapping and reverseMapping are left alone)
RemoveNodesWithNoEdges(gr) ==
    [gr EXCEPT !.nodes = @ \ NodesWithNoEdges(gr),
               !.free = @ \cup NodesWithNoEdges(gr)]

(***************************************************************************)
(* Specification of the graph operations: any sequence of AddOrGetNode,    *)
(* AddEdge and RemoveNodesWithNoEdges calls on one graph                   *)
(***************************************************************************)
ApiLabels == {"user", "document#viewer"}
\* (optionalHeadLabel, optionalStyle) pairs that rewriteHandler passes to AddEdge
ApiEdgeKinds ==
    { [headlabel |-> "", style |-> ""],
      [headlabel |-> "", style |-> "dashed"],
      [headlabel |-> "(document#parent)", style |-> ""] }

NoInfo == [possibleCycles |-> 0, definitiveCycles |-> 0, cycles |-> << >>]

InitApi ==
    /\ model = << >>
    /\ g = newDotEncodingGraph
    /\ pc = "api"
    /\ ti = 0
    /\ ri = 0
    /\ todo = << >>
    /\ calls = << >>
    /\ requested = {}
    /\ info = NoInfo
    /\ builds = << >>

ApiAddOrGetNode ==
    /\ pc = "api"
    /\ \E label \in ApiLabels, c \in IDChoices(g) :
          g' = AddOrGetNode(g, label, c).g
    /\ UNCHANGED <<model, pc, ti, ri, todo, calls, requested, info, builds>>

ApiAddEdge ==
    /\ pc = "api"
    /\ g.edgeCounter < MaxEdges
    /\ \E from \in ApiLabels, to \in ApiLabels, k \in ApiEdgeKinds :
       \E c1 \in IDChoices(g) :
       \E c2 \in IDChoices(AddOrGetNode(g, from, c1).g) :
          /\ IF AddEdgePanics(g, from, to, c1, c2)
             THEN /\ pc' = "panicked"
                  /\ g' = AddOrGetNode(AddOrGetNode(g, from, c1).g, to, c2).g
                  /\ requested' = requested
             ELSE /\ pc' = pc
                  /\ g' = AddEdge(g, from, to, k.headlabel, k.style, c1, c2)
                  /\ requested' = requested \cup {<<from, to, k.headlabel>>}
    /\ UNCHANGED <<model, ti, ri, todo, calls, info, builds>>

ApiRemoveNodesWithNoEdges ==
    /\ pc = "api"
    /\ g' = RemoveNodesWithNoEdges(g)
    /\ UNCHANGED <<model, pc, ti, ri, todo, calls, requested, info, builds>>

Next ==
    \/ ApiAddOrGetNode
    \/ ApiAddEdge
    \/ ApiRemoveNodesWithNoEdges

Spec == InitApi /\ [][Next]_vars

(***************************************************************************)
(* Authorization models                                                    *)
(*   TypeDefinition  [type, relations : relation name -> Relation]         *)
(*   Relation        [rewrite : Userset, refs : Seq(RelatedTypeRef)]       *)
(*   Userset         [kind, relation, tupleset, child]                     *)
(*   RelatedTypeRef  [type, relation, wildcard, condition]                 *)
(***************************************************************************)
This == [kind |-> "this", relation |-> "", tupleset |-> "", child |-> << >>]
ComputedUserset(r) == [kind |-> "computed", relation |-> r, tupleset |-> "", child |-> << >>]
TupleToUserset(ts, r) == [kind |-> "ttu", relation |-> r, tupleset |-> ts, child |-> << >>]
Union(ch) == [kind |-> "union", relation |-> "", tupleset |-> "", child |-> ch]
Intersection(ch) == [kind |-> "intersection", relation |-> "", tupleset |-> "", child |-> ch]
\* child = <<base, subtract>>
Difference(ch) == [kind |-> "difference", relation |-> "", tupleset |-> "", child |-> ch]

\* the Union, Intersection or Difference (by kind) of the children ch
SetOperation(kind, ch) == [kind |-> kind, relation |-> "", tupleset |-> "", child |-> ch]

IsLeaf(rw) == rw.kind \in {"this", "computed", "ttu"}

Ref(t, r, w, c) == [type |-> t, relation |-> r, wildcard |-> w, condition |-> c]

\* byte-wise order of the names that occur in the models (sort.Strings, slices.IsSorted)
NameOrder ==
    << "a", "admin", "b", "c", "can_apply", "can_view", "document", "editor", "end",
       "member", "memberA", "memberB", "memberC", "owner", "resource", "start",
       "state", "super_admin", "transition", "user", "viewer", "x", "y", "z" >>
Rank(name) == CHOOSE i \in 1..Len(NameOrder) : NameOrder[i] = name
StrLeq(a, b) == Rank(a) <= Rank(b)

\* fmt.Sprintf("%s#%s", a, b)
RelationNodeName(a, b) == a \o "#" \o b
\* fmt.Sprintf("%s:*", a)
WildcardNodeName(a) == a \o ":*"
\* fmt.Sprintf(" %s[with %s]", assignableType, conditionName)
ConditionedType(assignableType, conditionName) ==
    " " \o assignableType \o "[with " \o conditionName \o "]"
\* fmt.Sprintf("(%s#%s)", typeName, tupleset)
ConditionedOnNodeName(typeName, tupleset) == "(" \o typeName \o "#" \o tupleset \o ")"

(***************************************************************************)
(* typesystem (github.com/openfga/openfga/pkg/typesystem), as buildGraph   *)
(* and rewriteHandler use it                                               *)
(***************************************************************************)
\* the TypeDefinition named typeName (typesystem.New indexes the model by type name)
TypeDef(m, typeName) == m[CHOOSE i \in 1..Len(m) : m[i].type = typeName]

\* typesys.GetRelation(typeName, relation) returns an error
GetRelationFails(m, typeName, relation) ==
    \/ \A i \in 1..Len(m) : m[i].type # typeName
    \/ relation \notin DOMAIN TypeDef(m, typeName).relations

\* typesys.GetDirectlyRelatedUserTypes(typeName, relation), and
\* GetRelation(typeName, relation).GetTypeInfo().GetDirectlyRelatedUserTypes()
GetDirectlyRelatedUserTypes(m, typeName, relation) ==
    TypeDef(m, typeName).relations[relation].refs

RECURSIVE WalkChildren(_)
RECURSIVE WalkUsersetRewrite(_)
\* a mutant of WalkUsersetRewrite: only the children of a Union are visited
WalkUsersetRewrite_unionOnly(rw) ==
    IF IsLeaf(rw) THEN <<rw, rw>>
    ELSE IF rw.kind = "union" THEN <<rw>> \o WalkChildren(rw.child)
    ELSE <<rw>>

\* typesystem.WalkUsersetRewrite with a handler that always returns nil: the
\* usersets the handler is invoked on, in order.  The walker calls the handler
\* on every node, calls it a second time on a leaf, and descends into the
\* children of a Union / Intersection and into base, subtract of a Difference.
WalkUsersetRewrite(rw) ==
    IF IsLeaf(rw) THEN <<rw, rw>> ELSE <<rw>> \o WalkChildren(rw.child)
WalkChildren(ch) ==
    IF ch = << >> THEN << >>
    ELSE WalkUsersetRewrite(Head(ch)) \o WalkChildren(Tail(ch))

(***************************************************************************)
(* buildGraph                                                              *)
(***************************************************************************)
RECURSIVE InsertInto(_, _)
\* inner loop of the insertion sort: move the last element x left while less(x, prev)
InsertInto(sorted, x) ==
    IF sorted # << >> /\ StrLeq(x.type, sorted[Len(sorted)].type)
    THEN Append(InsertInto(SubSeq(sorted, 1, Len(sorted) - 1), x), sorted[Len(sorted)])
    ELSE Append(sorted, x)

\* a mutant of SortTypeDefinitions: the TypeDefinitions keep the order of the model
SortTypeDefinitions_keepsOrder(m) == m

RECURSIVE SortTypeDefinitions(_)
\* sort.SliceStable(model.TypeDefinitions, less(i, j) = IsSorted({type_i, type_j})):
\* insertion sort (fewer than 20 elements) under the non-strict order <=
SortTypeDefinitions(m) ==
    IF m = << >> THEN << >>
    ELSE InsertInto(SortTypeDefinitions(SubSeq(m, 1, Len(m) - 1)), m[Len(m)])

RECURSIVE SortStrings(_)
\* sort.Strings over the keys of typedef.Relations
SortStrings(names) ==
    IF names = {} THEN << >>
    ELSE LET least == CHOOSE a \in names : \A b \in names : StrLeq(a, b)
         IN <<least>> \o SortStrings(names \ {least})

sortedRelationNames(typedef) == SortStrings(DOMAIN typedef.relations)

Call(from, to, headlabel, style) ==
    [from |-> from, to |-> to, headlabel |-> headlabel, style |-> style]

\* the assignable type of a RelatedTypeRef, decorated when it carries a condition
AssignableType(ref) ==
    IF ref.condition # "" THEN ConditionedType(ref.type, ref.condition) ELSE ref.type

\* a mutant of ThisCalls: a conditioned wildcard keeps the plain wildcard label
ThisRefCalls_plainWildcard(ref, relationNodeName) ==
    IF ref.relation # "" \/ ref.wildcard
    THEN (IF ref.relation # ""
          THEN <<Call(RelationNodeName(AssignableType(ref), ref.relation), relationNodeName, "", "")>>
          ELSE << >>)
         \o
         (IF ref.wildcard
          THEN <<Call(WildcardNodeName(ref.type), relationNodeName, "", "")>>
          ELSE << >>)
    ELSE <<Call(AssignableType(ref), relationNodeName, "", "")>>

\* rewriteHandler, case Userset_This, body of the loop: the AddEdge calls for one ref
ThisRefCalls(ref, relationNodeName) ==
    IF ref.relation # "" \/ ref.wildcard          \* GetRelationOrWildcard() != nil
    THEN (IF ref.relation # ""
          THEN <<Call(RelationNodeName(AssignableType(ref), ref.relation), relationNodeName, "", "")>>
          ELSE << >>)
         \o
         (IF ref.wildcard
          THEN <<Call(WildcardNodeName(AssignableType(ref)), relationNodeName, "", "")>>
          ELSE << >>)
    ELSE <<Call(AssignableType(ref), relationNodeName, "", "")>>

RECURSIVE ThisCalls(_, _)
\* rewriteHandler, case Userset_This: the AddEdge calls, in order
ThisCalls(refs, relationNodeName) ==
    IF refs = << >> THEN << >>
    ELSE ThisRefCalls(Head(refs), relationNodeName) \o ThisCalls(Tail(refs), relationNodeName)

\* a mutant of ComputedCalls: the edge is added without the dashed style
ComputedCalls_noStyle(typeName, rewrittenRelation, relationNodeName) ==
    <<Call(RelationNodeName(typeName, rewrittenRelation), relationNodeName, "", "")>>

\* rewriteHandler, case Userset_ComputedUserset (GetRelation succeeded)
ComputedCalls(typeName, rewrittenRelation, relationNodeName) ==
    <<Call(RelationNodeName(typeName, rewrittenRelation), relationNodeName, "", "dashed")>>

\* a mutant of TupleToUsersetRefCall: the edge leads from the relation to the
\* rewritten relation of the related type
TupleToUsersetRefCall_reversed(relatedType, typeName, tupleset, rewrittenRelation, relationNodeName) ==
    Call(relationNodeName,
         RelationNodeName(AssignableType(relatedType), rewrittenRelation),
         ConditionedOnNodeName(typeName, tupleset), "")

\* rewriteHandler, case Userset_TupleToUserset, body of the loop
TupleToUsersetRefCall(relatedType, typeName, tupleset, rewrittenRelation, relationNodeName) ==
    Call(RelationNodeName(AssignableType(relatedType), rewrittenRelation),
         relationNodeName, ConditionedOnNodeName(typeName, tupleset), "")

RECURSIVE TupleToUsersetCalls(_, _, _, _, _)
\* rewriteHandler, case Userset_TupleToUserset (GetRelation succeeded)
TupleToUsersetCalls(directlyRelatedTypes, typeName, tupleset, rewrittenRelation, relationNodeName) ==
    IF directlyRelatedTypes = << >> THEN << >>
    ELSE <<TupleToUsersetRefCall(Head(directlyRelatedTypes), typeName, tupleset,
                                 rewrittenRelation, relationNodeName)>>
         \o TupleToUsersetCalls(Tail(directlyRelatedTypes), typeName, tupleset,
                                rewrittenRelation, relationNodeName)

RECURSIVE ApplyCalls(_, _)
\* the graph after the AddEdge calls cs, in order (no id was released during a
\* build, so NewID takes maxID + 1)
ApplyCalls(gr, cs) ==
    IF cs = << >> THEN gr
    ELSE ApplyCalls(AddEdge(gr, Head(cs).from, Head(cs).to, Head(cs).headlabel,
                            Head(cs).style, Nil, Nil),
                    Tail(cs))

(***************************************************************************)
(* topo.DirectedCyclesIn (gonum.org/v1/gonum/graph/topo): Johnson's        *)
(* algorithm as gonum implements it.  Go iterates the successor sets in an *)
(* unspecified order, which changes the order of the result only; here the *)
(* successors are taken in ascending id order.                             *)
(***************************************************************************)
RECURSIVE SortIDs(_)
SortIDs(ids) ==
    IF ids = {} THEN << >>
    ELSE LET least == CHOOSE a \in ids : \A b \in ids : a <= b
         IN <<least>> \o SortIDs(ids \ {least})

\* g.From(uid) for every node: ids of the nodes reachable by one line
Successors(gr) ==
    [u \in gr.nodes |-> {gr.lines[i].to : i \in {k \in 1..Len(gr.lines) : gr.lines[k].from = u}}]

\* johnsonGraphFrom: orig = nodes ordered by id, succ = successor sets
johnsonGraphFrom(gr) ==
    [orig |-> SortIDs(gr.nodes), nodes |-> gr.nodes, succ |-> Successors(gr)]

\* a mutant of subgraph: the position s is taken for a node id
subgraph_byPosition(adj, s) ==
    LET keep == {u \in adj.nodes : u >= s - 1}
    IN [orig |-> adj.orig, nodes |-> keep,
        succ |-> [u \in keep |-> adj.succ[u] \cap keep]]

\* johnsonGraph.subgraph(s): the graph induced by the nodes with id >= orig[s]
subgraph(adj, s) ==
    LET keep == {u \in adj.nodes : u >= adj.orig[s]}
    IN [orig |-> adj.orig, nodes |-> keep,
        succ |-> [u \in keep |-> adj.succ[u] \cap keep]]

RECURSIVE ReachableFrom(_, _, _)
\* nodes reachable from the frontier (the frontier included)
ReachableFrom(adj, frontier, seen) ==
    IF frontier \subseteq seen THEN seen
    ELSE ReachableFrom(adj, UNION {adj.succ[u] : u \in frontier}, seen \cup frontier)

\* TarjanSCC: the strongly connected components, as sets of node ids
TarjanSCC(adj) ==
    { {v \in adj.nodes : v \in ReachableFrom(adj, {u}, {}) /\ u \in ReachableFrom(adj, {v}, {})}
      : u \in adj.nodes }

\* a mutant of sccSubGraph: components of a single node are kept as well
sccSubGraph_keepsSingletons(adj, sccs, min) ==
    LET keep == UNION {c \in sccs : Cardinality(c) >= 1}
    IN [orig |-> adj.orig, nodes |-> keep,
        succ |-> [u \in keep |->
                    {v \in adj.succ[u] : \E c \in sccs : u \in c /\ v \in c}]]

\* johnsonGraph.sccSubGraph(sccs, min): the lines inside the components that
\* have at least min nodes
sccSubGraph(adj, sccs, min) ==
    LET keep == UNION {c \in sccs : Cardinality(c) >= min}
    IN [orig |-> adj.orig, nodes |-> keep,
        succ |-> [u \in keep |->
                    {v \in adj.succ[u] : \E c \in sccs : u \in c /\ v \in c}]]

RECURSIVE unblock(_, _)
RECURSIVE unblockLoop(_, _, _)
\* johnson.unblock(u)
unblock(js, u) ==
    unblockLoop([js EXCEPT !.blocked[u] = FALSE], u, SortIDs(js.b[u]))
unblockLoop(js, u, ws) ==
    IF ws = << >> THEN js
    ELSE LET w == Head(ws)
             js1 == [js EXCEPT !.b[u] = @ \ {w}]
             js2 == IF js1.blocked[w] THEN unblock(js1, w) ELSE js1
         IN unblockLoop(js2, u, Tail(ws))

RECURSIVE circuit(_, _, _, _)
RECURSIVE circuitLoop(_, _, _, _, _, _)
\* johnson.circuit(v): [f |-> a circuit was found, js |-> state afterwards]
circuit(adj, s, v, js) ==
    LET js1 == [js EXCEPT !.stack = Append(@, v), !.blocked[v] = TRUE]
        r == circuitLoop(adj, s, v, SortIDs(adj.succ[v]), FALSE, js1)
        js2 == IF r.f
               THEN unblock(r.js, v)
               ELSE [r.js EXCEPT !.b = [w \in DOMAIN @ |->
                                          IF w \in adj.succ[v] THEN @[w] \cup {v} ELSE @[w]]]
    IN [f |-> r.f, js |-> [js2 EXCEPT !.stack = SubSeq(@, 1, Len(@) - 1)]]
circuitLoop(adj, s, v, ws, f, js) ==
    IF ws = << >> THEN [f |-> f, js |-> js]
    ELSE LET w == Head(ws)
         IN IF w = s
            THEN circuitLoop(adj, s, v, Tail(ws), TRUE,
                             [js EXCEPT !.result = Append(@, Append(js.stack, s))])
            ELSE IF ~js.blocked[w]
            THEN LET r == circuit(adj, s, w, js)
                 IN circuitLoop(adj, s, v, Tail(ws), f \/ r.f, r.js)
            ELSE circuitLoop(adj, s, v, Tail(ws), f, js)

RECURSIVE johnsonLoop(_, _, _)
\* the main loop of DirectedCyclesIn, from index s of orig
johnsonLoop(adj, s, js) ==
    IF ~(s < Len(adj.orig)) THEN js.result
    ELSE LET next == sccSubGraph(adj, TarjanSCC(subgraph(adj, s)), 2)
         IN IF next.nodes = {} THEN js.result
            ELSE LET js1 == [js EXCEPT
                               !.blocked = [u \in DOMAIN @ |->
                                   IF u \in next.nodes /\ next.succ[u] # {} THEN FALSE ELSE @[u]],
                               !.b = [u \in DOMAIN @ |->
                                   IF u \in next.nodes /\ next.succ[u] # {} THEN {} ELSE @[u]]]
                     start == next.orig[s]
                     js2 == IF start \in next.nodes
                            THEN circuit(next, start, start, js1).js
                            ELSE [js1 EXCEPT !.blocked[start] = TRUE]
                 IN johnsonLoop(next, s + 1, js2)

\* topo.DirectedCyclesIn(g): the cycles as node id paths, first id repeated last
DirectedCyclesIn(gr) ==
    johnsonLoop(johnsonGraphFrom(gr), 1,
                [blocked |-> [u \in gr.nodes |-> FALSE],
                 b       |-> [u \in gr.nodes |-> {}],
                 stack   |-> << >>,
                 result  |-> << >>])

(***************************************************************************)
(* parseCycleInformation                                                   *)
(***************************************************************************)
\* a mutant of HasNonDashedLine: the style of the lines is not looked at
HasNonDashedLine_anyLine(gr, from, to) ==
    \E i \in Lines(gr, from, to) : TRUE

\* some line from -> to is not styled "dashed"
HasNonDashedLine(gr, from, to) ==
    \E i \in Lines(gr, from, to) : gr.lines[i].style # "dashed"

RECURSIVE CountNonComputedHops(_, _, _)
\* the possibleCycles++ executed while walking one cycle from position i
CountNonComputedHops(gr, nodesInCycle, i) ==
    IF i >= Len(nodesInCycle) THEN 0
    ELSE (IF HasNonDashedLine(gr, nodesInCycle[i], nodesInCycle[i + 1]) THEN 1 ELSE 0)
         + CountNonComputedHops(gr, nodesInCycle, i + 1)

RECURSIVE SumPossible(_, _, _)
SumPossible(gr, pathsInCycles, k) ==
    IF k > Len(pathsInCycles) THEN 0
    ELSE CountNonComputedHops(gr, pathsInCycles[k], 1) + SumPossible(gr, pathsInCycles, k + 1)

\* a mutant of parseCycleInformation: definitive cycles are counted on their own
\* instead of being derived from the total
parseCycleInformation_countsDefinitive(gr) ==
    LET pathsInCycles == DirectedCyclesIn(gr)
    IN [ possibleCycles   |-> SumPossible(gr, pathsInCycles, 1),
         definitiveCycles |-> Cardinality({k \in 1..Len(pathsInCycles) :
                                  CountNonComputedHops(gr, pathsInCycles[k], 1) = 0}),
         cycles           |-> [k \in 1..Len(pathsInCycles) |->
                                 [i \in 1..Len(pathsInCycles[k]) |->
                                    gr.reverseMapping[pathsInCycles[k][i]]]] ]

parseCycleInformation(gr) ==
    LET pathsInCycles == DirectedCyclesIn(gr)
        possible == SumPossible(gr, pathsInCycles, 1)
    IN [ possibleCycles   |-> possible,
         definitiveCycles |-> Len(pathsInCycles) - possible,
         cycles           |-> [k \in 1..Len(pathsInCycles) |->
                                 [i \in 1..Len(pathsInCycles[k]) |->
                                    gr.reverseMapping[pathsInCycles[k][i]]]] ]

(***************************************************************************)
(* Specification of Writer: buildGraph over a model, RemoveNodesWithNoEdges,*)
(* parseCycleInformation                                                   *)
(***************************************************************************)
\* the RelatedTypeRefs the models draw from
BaseRefs ==
    { Ref("user", "", FALSE, ""),
      Ref("user", "", TRUE, ""),
      Ref("user", "", FALSE, "condition1"),
      Ref("user", "", TRUE, "condition1"),
      Ref("document", "", FALSE, ""),
      Ref("document", "editor", FALSE, ""),
      Ref("document", "viewer", FALSE, ""),
      Ref("document", "viewer", FALSE, "condition1") }

\* sequences over S of length 1..n
RECURSIVE SeqsUpTo(_, _)
SeqsUpTo(S, n) ==
    IF n = 0 THEN {}
    ELSE LET shorter == SeqsUpTo(S, n - 1)
         IN {<<x>> : x \in S} \cup {Append(q, x) : q \in shorter, x \in S}

RefLists == SeqsUpTo(BaseRefs, MaxRefs)

Leaves ==
    { This, ComputedUserset("editor"), ComputedUserset("viewer"),
      TupleToUserset("editor", "editor"), TupleToUserset("editor", "viewer") }

ChildLists == {q \in SeqsUpTo(Leaves, MaxChildren) : Len(q) >= 2}

Rewrites ==
    Leaves
    \cup {Union(ch) : ch \in ChildLists}
    \cup {Intersection(ch) : ch \in ChildLists}
    \cup {Difference(ch) : ch \in {q \in ChildLists : Len(q) = 2}}

RECURSIVE HasThis(_)
HasThis(rw) ==
    \/ rw.kind = "this"
    \/ \E i \in 1..Len(rw.child) : HasThis(rw.child[i])

\* a relation has type restrictions exactly when its rewrite contains a direct assignment;
\* lists of several restrictions are drawn for the plain direct assignment, one restriction
\* for a direct assignment inside a set operation
Relations ==
    {[rewrite |-> rw, refs |-> << >>] : rw \in {x \in Rewrites : ~HasThis(x)}}
    \cup {[rewrite |-> This, refs |-> rf] : rf \in RefLists}
    \cup {[rewrite |-> rw, refs |-> <<rf>>] :
             rw \in {x \in Rewrites : HasThis(x) /\ x # This}, rf \in BaseRefs}

\* definitions of document#editor (none: the relation is not defined)
EditorRelations ==
    { [rewrite |-> This, refs |-> <<Ref("user", "", FALSE, "")>>],
      [rewrite |-> This, refs |-> <<Ref("user", "", FALSE, "condition1")>>],
      [rewrite |-> This, refs |-> <<Ref("document", "", FALSE, "")>>],
      [rewrite |-> This, refs |-> <<Ref("document", "viewer", FALSE, "")>>],
      [rewrite |-> ComputedUserset("viewer"), refs |-> << >>],
      [rewrite |-> Union(<<This, ComputedUserset("viewer")>>),
       refs |-> <<Ref("document", "", FALSE, "")>>] }

DocumentTypes ==
    {[type |-> "document", relations |-> [r \in {"viewer"} |-> v]] : v \in Relations}
    \cup {[type |-> "document",
           relations |-> [r \in {"editor", "viewer"} |-> IF r = "editor" THEN e ELSE v]]
          : e \in EditorRelations, v \in Relations}

UserType == [type |-> "user", relations |-> << >>]

\* every RelatedTypeRef names a type of the model
RefsResolve(m) ==
    \A i \in 1..Len(m) : \A r \in DOMAIN m[i].relations :
        \A k \in 1..Len(m[i].relations[r].refs) :
            \E j \in 1..Len(m) : m[j].type = m[i].relations[r].refs[k].type

\* the models generated from DocumentTypes
GeneratedModels ==
    {m \in {<<d>> : d \in DocumentTypes}
           \cup {<<d, UserType>> : d \in DocumentTypes}
           \cup {<<UserType, d>> : d \in DocumentTypes} : RefsResolve(m)}

\* a relation `define r: [user]`, `define r: [user] <rewrite>`, `define r: <rewrite>`
DirectUser == <<Ref("user", "", FALSE, "")>>
WithUser(rw) == [rewrite |-> rw, refs |-> DirectUser]
NoRefs(rw) == [rewrite |-> rw, refs |-> << >>]
Type(name, relations) == [type |-> name, relations |-> relations]

\* TestWriter_Cycles/computed_userset_1: define a: b, define b: a
ComputedUserset1 ==
    << Type("resource", "a" :> NoRefs(ComputedUserset("b"))
                     @@ "b" :> NoRefs(ComputedUserset("a"))) >>

\* TestWriter_Cycles/computed_userset_2: define x: y, define y: z, define z: x
ComputedUserset2 ==
    << Type("resource", "x" :> NoRefs(ComputedUserset("y"))
                     @@ "y" :> NoRefs(ComputedUserset("z"))
                     @@ "z" :> NoRefs(ComputedUserset("x"))) >>

\* the ring x -> y -> z -> x, each relation being op1/op2/op3 of [user] and the next
RingWithUser(op1, op2, op3) ==
    << UserType,
       Type("resource", "x" :> WithUser(SetOperation(op1, <<This, ComputedUserset("y")>>))
                     @@ "y" :> WithUser(SetOperation(op2, <<This, ComputedUserset("z")>>))
                     @@ "z" :> WithUser(SetOperation(op3, <<This, ComputedUserset("x")>>))) >>

\* TestWriter_Cycles/union_1, intersection_and_union, exclusion_and_union
Union1 == RingWithUser("union", "union", "union")
IntersectionAndUnion == RingWithUser("intersection", "intersection", "union")
ExclusionAndUnion == RingWithUser("difference", "difference", "union")

\* define r: [user] or a or b or c
UnionOfComputed(a, b, c) ==
    WithUser(Union(<<This, ComputedUserset(a), ComputedUserset(b), ComputedUserset(c)>>))

\* TestWriter_Cycles/union_3: four relations, each the union of the other three
Union3 ==
    << UserType,
       Type("resource", "member"  :> UnionOfComputed("memberA", "memberB", "memberC")
                     @@ "memberA" :> UnionOfComputed("member", "memberB", "memberC")
                     @@ "memberB" :> UnionOfComputed("member", "memberA", "memberC")
                     @@ "memberC" :> UnionOfComputed("member", "memberA", "memberB")) >>

\* TestWriter_Cycles/union_4: three mutually referencing relations and the sink owner
Union4 ==
    << UserType,
       Type("resource", "admin"       :> UnionOfComputed("member", "super_admin", "owner")
                     @@ "member"      :> UnionOfComputed("owner", "admin", "super_admin")
                     @@ "super_admin" :> UnionOfComputed("admin", "member", "owner")
                     @@ "owner"       :> WithUser(This)) >>

\* TestWriter_Cycles/scenario_1
Scenario1 ==
    << UserType,
       Type("document",
            "viewer" :> [rewrite |-> Union(<<This, ComputedUserset("editor")>>),
                         refs |-> <<Ref("user", "", FALSE, ""), Ref("document", "viewer", FALSE, "")>>]
         @@ "editor" :> [rewrite |-> This,
                         refs |-> <<Ref("user", "", FALSE, ""), Ref("document", "viewer", FALSE, "")>>]) >>

\* TestWriter_DOT/with_intersection and with_exclusion: define c: a <op> b
ComputedPair(op) ==
    << UserType,
       Type("document", "a" :> WithUser(This)
                     @@ "b" :> WithUser(This)
                     @@ "c" :> NoRefs(SetOperation(op, <<ComputedUserset("a"), ComputedUserset("b")>>))) >>

\* TestWriter_DOT/multigraph
Multigraph ==
    << UserType,
       Type("state", "can_view" :> WithUser(This)),
       Type("transition",
            "start" :> [rewrite |-> This, refs |-> <<Ref("state", "", FALSE, "")>>]
         @@ "end"   :> [rewrite |-> This, refs |-> <<Ref("state", "", FALSE, "")>>]
         @@ "can_apply" :>
               WithUser(Intersection(<<This, TupleToUserset("start", "can_view"),
                                       TupleToUserset("end", "can_view")>>))) >>

\* the models of the repository's tests
TestModels ==
    { ComputedUserset1, ComputedUserset2, Union1, IntersectionAndUnion, ExclusionAndUnion,
      Union3, Union4, Scenario1,
      ComputedPair("union"), ComputedPair("intersection"), ComputedPair("difference"),
      Multigraph }

Models == GeneratedModels \cup TestModels

InitBuild ==
    /\ model \in Models
    /\ g = newDotEncodingGraph
    /\ pc = "start"
    /\ ti = 0
    /\ ri = 0
    /\ todo = << >>
    /\ calls = << >>
    /\ requested = {}
    /\ info = NoInfo
    /\ builds = << >>

\* a mutant of StartBuild: the sequence counter outlives the build
StartBuild_sharedCounter ==
    /\ pc = "start"
    /\ model' = SortTypeDefinitions(model)
    /\ g' = [newDotEncodingGraph EXCEPT !.edgeCounter = g.edgeCounter]
    /\ ti' = 1
    /\ pc' = "types"
    /\ requested' = {}
    /\ builds' = Append(builds, [input |-> model, returned |-> FALSE,
                                  built |-> newDotEncodingGraph,
                                  pruned |-> newDotEncodingGraph])
    /\ UNCHANGED <<ri, todo, calls, info>>

\* buildGraph, lines 17-24: typesystem, in-place sort of the TypeDefinitions, new graph
StartBuild ==
    /\ pc = "start"
    /\ model' = SortTypeDefinitions(model)
    /\ g' = newDotEncodingGraph
    /\ ti' = 1
    /\ pc' = "types"
    /\ requested' = {}
    /\ builds' = Append(builds, [input |-> model, returned |-> FALSE,
                                  built |-> newDotEncodingGraph,
                                  pruned |-> newDotEncodingGraph])
    /\ UNCHANGED <<ri, todo, calls, info>>

\* buildGraph, lines 26-37: nodes of the type and of its wildcard
VisitType ==
    /\ pc = "types"
    /\ ti <= Len(model)
    /\ LET typeName == model[ti].type
       IN g' = AddOrGetNode(AddOrGetNode(g, typeName, Nil).g,
                            WildcardNodeName(typeName), Nil).g
    /\ ri' = 1
    /\ pc' = "relations"
    /\ calls' = << >>
    /\ UNCHANGED <<model, ti, todo, requested, info, builds>>

\* buildGraph, lines 39-43: node of the relation, start of the walk of its rewrite
VisitRelation ==
    /\ pc = "relations"
    /\ ri <= Len(sortedRelationNames(model[ti]))
    /\ LET typeName == model[ti].type
           relation == sortedRelationNames(model[ti])[ri]
       IN /\ g' = AddOrGetNode(g, RelationNodeName(typeName, relation), Nil).g
          /\ todo' = WalkUsersetRewrite(model[ti].relations[relation].rewrite)
    /\ pc' = "walk"
    /\ calls' = << >>
    /\ UNCHANGED <<model, ti, ri, requested, info, builds>>

\* the relations of the type are exhausted: next TypeDefinition
EndType ==
    /\ pc = "relations"
    /\ ri > Len(sortedRelationNames(model[ti]))
    /\ ti' = ti + 1
    /\ pc' = "types"
    /\ calls' = << >>
    /\ UNCHANGED <<model, g, ri, todo, requested, info, builds>>

CurrentType == model[ti].type
CurrentRelation == sortedRelationNames(model[ti])[ri]
CurrentRelationNodeName == RelationNodeName(CurrentType, CurrentRelation)

\* one handler invocation that issues the AddEdge calls cs
Handle(cs) ==
    /\ g' = ApplyCalls(g, cs)
    /\ calls' = cs
    /\ requested' = requested \cup {<<cs[k].from, cs[k].to, cs[k].headlabel>> : k \in 1..Len(cs)}
    /\ todo' = Tail(todo)
    /\ UNCHANGED <<model, pc, ti, ri, info, builds>>

\* the handler panics: buildGraph does not return
HandlerPanics ==
    /\ pc' = "panicked"
    /\ calls' = << >>
    /\ UNCHANGED <<model, g, ti, ri, todo, requested, info, builds>>

\* rewriteHandler on a Userset_This
HandleThis ==
    /\ pc = "walk" /\ todo # << >>
    /\ Head(todo).kind = "this"
    /\ Handle(ThisCalls(GetDirectlyRelatedUserTypes(model, CurrentType, CurrentRelation),
                        CurrentRelationNodeName))

\* a mutant of HandleComputedUserset: the error of GetRelation is dropped
HandleComputedUserset_ignoresError ==
    /\ pc = "walk" /\ todo # << >>
    /\ Head(todo).kind = "computed"
    /\ Handle(ComputedCalls(CurrentType, Head(todo).relation, CurrentRelationNodeName))

\* rewriteHandler on a Userset_ComputedUserset
HandleComputedUserset ==
    /\ pc = "walk" /\ todo # << >>
    /\ Head(todo).kind = "computed"
    /\ IF GetRelationFails(model, CurrentType, Head(todo).relation)
       THEN HandlerPanics
       ELSE Handle(ComputedCalls(CurrentType, Head(todo).relation, CurrentRelationNodeName))

\* rewriteHandler on a Userset_TupleToUserset
HandleTupleToUserset ==
    /\ pc = "walk" /\ todo # << >>
    /\ Head(todo).kind = "ttu"
    /\ IF GetRelationFails(model, CurrentType, Head(todo).tupleset)
       THEN HandlerPanics
       ELSE Handle(TupleToUsersetCalls(
                      GetDirectlyRelatedUserTypes(model, CurrentType, Head(todo).tupleset),
                      CurrentType, Head(todo).tupleset, Head(todo).relation,
                      CurrentRelationNodeName))

\* a mutant of HandleSetOperation: the set operation adds an edge of its own,
\* from the type to the relation
HandleSetOperation_addsEdge ==
    /\ pc = "walk" /\ todo # << >>
    /\ Head(todo).kind \in {"union", "intersection", "difference"}
    /\ Handle(<<Call(CurrentType, CurrentRelationNodeName, "", "")>>)

\* rewriteHandler on a Userset_Union, Userset_Intersection or Userset_Difference
HandleSetOperation ==
    /\ pc = "walk" /\ todo # << >>
    /\ Head(todo).kind \in {"union", "intersection", "difference"}
    /\ Handle(<< >>)

\* WalkUsersetRewrite returned: next relation
EndWalk ==
    /\ pc = "walk" /\ todo = << >>
    /\ ri' = ri + 1
    /\ pc' = "relations"
    /\ calls' = << >>
    /\ UNCHANGED <<model, g, ti, todo, requested, info, builds>>

\* buildGraph returns g; Writer removes the nodes with no edges
Prune ==
    /\ pc = "types"
    /\ ti > Len(model)
    /\ g' = RemoveNodesWithNoEdges(g)
    /\ pc' = "pruned"
    /\ calls' = << >>
    /\ builds' = [builds EXCEPT ![Len(builds)] =
                     [@ EXCEPT !.returned = TRUE, !.built = g,
                               !.pruned = RemoveNodesWithNoEdges(g)]]
    /\ UNCHANGED <<model, ti, ri, todo, requested, info>>

\* Writer returns the rendered graph and parseCycleInformation(g)
Analyze ==
    /\ pc = "pruned"
    /\ info' = parseCycleInformation(g)
    /\ pc' = "done"
    /\ UNCHANGED <<model, g, ti, ri, todo, calls, requested, builds>>

\* the TypeDefinitions of m in every order
Reorderings(m) ==
    {[i \in 1..Len(m) |-> m[p[i]]] :
        p \in {q \in [1..Len(m) -> 1..Len(m)] : \A i, j \in 1..Len(m) : q[i] = q[j] => i = j}}

\* the caller builds the graph of the same model once more, its TypeDefinitions
\* in any order
Rebuild ==
    /\ pc = "done"
    /\ Len(builds) < MaxBuilds
    /\ model' \in Reorderings(model)
    /\ pc' = "start"
    /\ ti' = 0
    /\ ri' = 0
    /\ info' = NoInfo
    /\ UNCHANGED <<g, todo, calls, requested, builds>>

NextBuild ==
    \/ StartBuild
    \/ VisitType
    \/ VisitRelation
    \/ EndType
    \/ HandleThis
    \/ HandleComputedUserset
    \/ HandleTupleToUserset
    \/ HandleSetOperation
    \/ EndWalk
    \/ Prune
    \/ Analyze

SpecBuild == InitBuild /\ [][NextBuild]_vars

(***************************************************************************)
(* Specification of repeated builds: the caller builds the graph of one    *)
(* model several times, its TypeDefinitions in any order                   *)
(***************************************************************************)
\* the models that are built repeatedly: those of the tests, and the generated
\* ones whose viewer relation is a single leaf
RebuildModels ==
    TestModels
    \cup {m \in Models \ TestModels :
             \A i \in 1..Len(m) :
                 "viewer" \in DOMAIN m[i].relations => IsLeaf(m[i].relations["viewer"].rewrite)}

InitRebuild ==
    /\ model \in RebuildModels
    /\ g = newDotEncodingGraph
    /\ pc = "start"
    /\ ti = 0
    /\ ri = 0
    /\ todo = << >>
    /\ calls = << >>
    /\ requested = {}
    /\ info = NoInfo
    /\ builds = << >>

NextRebuild ==
    \/ NextBuild
    \/ Rebuild

SpecRebuild == InitRebuild /\ [][NextRebuild]_vars

(***************************************************************************)
(* Properties                                                              *)
(***************************************************************************)
\* label of a node id
LabelOf(gr, id) == gr.reverseMapping[id]

\* the (from label, to label, context label) triples of the stored lines
LineTriples(gr) ==
    {<<LabelOf(gr, gr.lines[i].from), LabelOf(gr, gr.lines[i].to), gr.lines[i].headlabel>>
       : i \in 1..Len(gr.lines)}

\* a line fromLabel -> toLabel with this context label and style is stored
HasLine(gr, fromLabel, toLabel, headlabel, style) ==
    \E i \in 1..Len(gr.lines) :
        /\ LabelOf(gr, gr.lines[i].from) = fromLabel
        /\ LabelOf(gr, gr.lines[i].to) = toLabel
        /\ gr.lines[i].headlabel = headlabel
        /\ gr.lines[i].style = style

\* no node was removed from the graph so far: only AddOrGetNode and AddEdge
\* (and removals that found nothing to remove) have acted on it
NoNodeRemoved(gr) == Cardinality(DOMAIN gr.mapping) = Cardinality(gr.nodes)

\* C1: after any sequence of AddEdge calls, no two stored edges have the same
\* (from, to, context) triple, and the stored triples are exactly the triples
\* of the AddEdge calls made: calls that differ only in the context label are
\* both stored (parallel edges are kept)
C1_EdgeIdentityIsTriple ==
    NoNodeRemoved(g) =>
    /\ \A i \in 1..Len(g.lines), j \in 1..Len(g.lines) :
          ( /\ g.lines[i].from = g.lines[j].from
            /\ g.lines[i].to = g.lines[j].to
            /\ g.lines[i].headlabel = g.lines[j].headlabel ) => i = j
    /\ LineTriples(g) = requested

\* two parallel edges that differ only in their context label are stored
C1_Witness ==
    /\ NoNodeRemoved(g)
    /\ \E i \in 1..Len(g.lines), j \in 1..Len(g.lines) :
           /\ g.lines[i].from = g.lines[j].from
           /\ g.lines[i].to = g.lines[j].to
           /\ g.lines[i].headlabel = ""
           /\ g.lines[j].headlabel = "(document#parent)"

\* C2: during and after a build the sequence numbers of the edges are 1..E in
\* creation order, E being the number of distinct (from, to, context) triples
\* requested: a rejected duplicate AddEdge consumes no number
C2_SequenceNumbersContiguous ==
    /\ \A i \in 1..Len(g.lines) : g.lines[i].label = i
    /\ g.edgeCounter = Len(g.lines)
    /\ Len(g.lines) = Cardinality(requested)

\* the walk of a relation has ended with three edges in the graph, the last
\* handler invocation being the repeated one on a leaf, whose AddEdge calls
\* were all duplicates
C2_Witness ==
    /\ pc = "walk"
    /\ todo = << >>
    /\ Len(g.lines) >= 3
    /\ calls # << >>

\* the hops of a reported cycle (a node id path whose first id is repeated last)
\* that have a line which is not computed
NonComputedHops(gr, path) ==
    {i \in 1..(Len(path) - 1) : HasNonDashedLine(gr, path[i], path[i + 1])}

\* the cycles the report enumerates, as node id paths
ReportedCycles == DirectedCyclesIn(g)

\* C3: the report classifies each enumerated cycle exactly once: possibleCycles
\* is the number of reported cycles with at least one non-computed hop and
\* definitiveCycles the number of reported cycles whose hops are all computed
C3_EachCycleClassifiedOnce ==
    pc = "done" =>
        /\ info.possibleCycles =
              Cardinality({k \in 1..Len(ReportedCycles) :
                              NonComputedHops(g, ReportedCycles[k]) # {}})
        /\ info.definitiveCycles =
              Cardinality({k \in 1..Len(ReportedCycles) :
                              NonComputedHops(g, ReportedCycles[k]) = {}})

\* C4: definitiveCycles + possibleCycles is the number of reported cycles
C4_CountsAddUp ==
    pc = "done" => info.definitiveCycles + info.possibleCycles = Len(info.cycles)

\* a report with a cycle that has two non-computed hops
C4_Witness ==
    /\ pc = "done"
    /\ \E k \in 1..Len(ReportedCycles) :
          Cardinality(NonComputedHops(g, ReportedCycles[k])) >= 2
    /\ Len(info.cycles) >= 1

\* the model with one type whose only relation is defined as itself
SelfComputedModel ==
    << [type |-> "document",
        relations |-> [r \in {"viewer"} |->
            [rewrite |-> ComputedUserset("viewer"), refs |-> << >>]]] >>

\* C5: a self-loop counts as a one-node cycle: the model whose only relation is
\* `define viewer: viewer` yields 1 definitive cycle and 0 possible cycles
C5_SelfLoopIsDefinitiveCycle ==
    (pc = "done" /\ model = SelfComputedModel) =>
        /\ info.definitiveCycles = 1
        /\ info.possibleCycles = 0

\* some line leads from a node to itself and is not computed
HasDirectSelfLoop(gr) ==
    \E i \in 1..Len(gr.lines) :
        gr.lines[i].from = gr.lines[i].to /\ gr.lines[i].style # "dashed"

\* some cycle of the graph passes through two different nodes
HasCycleThroughTwoNodes(gr) ==
    \E c \in TarjanSCC(johnsonGraphFrom(gr)) : Cardinality(c) >= 2

\* C6: when a relation is directly assignable from its own userset (a
\* non-computed self-loop) and no cycle of the graph passes through two
\* different nodes, the report has no cycle at all
C6_DirectSelfLoopIsNoCycle ==
    (pc = "done" /\ HasDirectSelfLoop(g) /\ ~HasCycleThroughTwoNodes(g)) =>
        /\ info.possibleCycles = 0
        /\ info.definitiveCycles = 0
        /\ info.cycles = << >>

\* a finished report on a graph with a non-computed self-loop on a node that is
\* not the last one, and no other cycle
C6_Witness ==
    /\ pc = "done"
    /\ ~HasCycleThroughTwoNodes(g)
    /\ \E i \in 1..Len(g.lines) :
          /\ g.lines[i].from = g.lines[i].to
          /\ g.lines[i].style # "dashed"
          /\ \E n \in g.nodes : n > g.lines[i].from
    /\ info.cycles = << >>

RECURSIVE LeavesOf(_)
\* the leaves of a rewrite tree
LeavesOf(rw) ==
    IF rw.child = << >> THEN {rw}
    ELSE UNION {LeavesOf(rw.child[i]) : i \in 1..Len(rw.child)}

\* the relations of the model, as <<index of the type, relation name>>
ModelRelations ==
    UNION {{<<i, r>> : r \in DOMAIN model[i].relations} : i \in 1..Len(model)}

RelationNode(i, r) == model[i].type \o "#" \o r

\* C7: for every relation R of type T whose rewrite contains
\* ComputedReference(r), the built graph has an edge T#r -> T#R with empty
\* context that is computed (style dashed)
C7_ComputedEdgeIsDashed ==
    pc = "done" =>
        \A ir \in ModelRelations :
            \A leaf \in LeavesOf(model[ir[1]].relations[ir[2]].rewrite) :
                leaf.kind = "computed" =>
                    HasLine(g, RelationNode(ir[1], leaf.relation),
                            RelationNode(ir[1], ir[2]), "", "dashed")

\* the type part of an edge source: decorated when the ref carries a condition
DecoratedType(ref) ==
    IF ref.condition = "" THEN ref.type
    ELSE " " \o ref.type \o "[with " \o ref.condition \o "]"

\* the source of a Direct edge as claim C8 states it: only the plain type is decorated
SourceAsClaimed(ref) ==
    IF ref.relation # "" THEN ref.type \o "#" \o ref.relation
    ELSE IF ref.wildcard THEN ref.type \o ":*"
    ELSE DecoratedType(ref)

\* the source of a Direct edge with the type part decorated in all three forms
SourceDecorated(ref) ==
    IF ref.relation # "" THEN DecoratedType(ref) \o "#" \o ref.relation
    ELSE IF ref.wildcard THEN DecoratedType(ref) \o ":*"
    ELSE DecoratedType(ref)

\* this step is the handler acting on a Direct rewrite
ThisHandled ==
    /\ pc = "walk" /\ todo # << >>
    /\ Head(todo).kind = "this"
    /\ todo' = Tail(todo)

CurrentRefs == model[ti].relations[CurrentRelation].refs

\* C8 as stated: the handler of a Direct rewrite on relation R of type T issues
\* exactly one edge insertion per RelatedTypeRef, into T#R, non-computed, with
\* empty context, from Type#Relation, else Type:*, else the plain type
\* (decorated when conditioned)
C8_DirectSourcesAsClaimed ==
    [][ThisHandled =>
         calls' = [k \in 1..Len(CurrentRefs) |->
                     [from |-> SourceAsClaimed(CurrentRefs[k]),
                      to |-> model[ti].type \o "#" \o CurrentRelation,
                      headlabel |-> "", style |-> ""]]]_vars

\* C8 amended: as C8, the type part of the source being decorated with
\* [with Condition] in all three forms
C8_DirectSourcesDecorated ==
    [][ThisHandled =>
         calls' = [k \in 1..Len(CurrentRefs) |->
                     [from |-> SourceDecorated(CurrentRefs[k]),
                      to |-> model[ti].type \o "#" \o CurrentRelation,
                      headlabel |-> "", style |-> ""]]]_vars

\* the Direct handler has inserted the edge of a conditioned wildcard ref
C8_Witness ==
    /\ pc = "walk"
    /\ \E k \in 1..Len(calls) : calls[k].from = " user[with condition1]:*"
    /\ HasLine(g, " user[with condition1]:*", "document#viewer", "", "")

\* C9: for TuplesetReference(ts, r) on relation R of type T the graph has, for
\* each RelatedTypeRef of ts, a non-computed edge RelatedType#r -> T#R with
\* context (T#ts), and no other edge with that context (none when ts has no
\* directly related types)
C9_TuplesetEdges ==
    pc = "done" =>
        \A ir \in ModelRelations : \A ts \in DOMAIN model[ir[1]].relations :
            LET T == model[ir[1]].type
                ttus == {leaf \in LeavesOf(model[ir[1]].relations[ir[2]].rewrite) :
                            leaf.kind = "ttu" /\ leaf.tupleset = ts}
                context == "(" \o T \o "#" \o ts \o ")"
            IN ttus # {} =>
                 /\ {LabelOf(g, g.lines[i].from) :
                        i \in {k \in 1..Len(g.lines) :
                                  /\ LabelOf(g, g.lines[k].to) = RelationNode(ir[1], ir[2])
                                  /\ g.lines[k].headlabel = context}}
                    = {model[ir[1]].relations[ts].refs[k].type \o "#" \o leaf.relation :
                          leaf \in ttus, k \in 1..Len(model[ir[1]].relations[ts].refs)}
                 /\ \A i \in 1..Len(g.lines) :
                        g.lines[i].headlabel = context => g.lines[i].style = ""

\* the relations whose rewrite is an Intersection or a Difference
IntersectionOrDifference ==
    {ir \in ModelRelations :
        model[ir[1]].relations[ir[2]].rewrite.kind \in {"intersection", "difference"}}

\* C10 as stated: under an Intersection or Difference only the
\* ComputedReference children contribute an edge, and it is computed
C10_OnlyComputedChildrenContribute ==
    pc = "done" =>
        \A ir \in IntersectionOrDifference :
            \A i \in 1..Len(g.lines) :
                LabelOf(g, g.lines[i].to) = RelationNode(ir[1], ir[2]) =>
                    /\ g.lines[i].style = "dashed"
                    /\ g.lines[i].headlabel = ""
                    /\ \E leaf \in LeavesOf(model[ir[1]].relations[ir[2]].rewrite) :
                          /\ leaf.kind = "computed"
                          /\ LabelOf(g, g.lines[i].from) = RelationNode(ir[1], leaf.relation)

\* C10 amended: under an Intersection or Difference every child contributes its
\* edges: the Direct edges of every RelatedTypeRef, the tupleset edges with
\* their context, and the edges of the ComputedReference children
C10_EveryChildContributes ==
    pc = "done" =>
        \A ir \in IntersectionOrDifference :
            \A leaf \in LeavesOf(model[ir[1]].relations[ir[2]].rewrite) :
                LET T == model[ir[1]].type
                    into == RelationNode(ir[1], ir[2])
                    refs == model[ir[1]].relations[ir[2]].refs
                IN /\ leaf.kind = "this" =>
                        \A k \in 1..Len(refs) :
                            <<SourceDecorated(refs[k]), into, "">> \in LineTriples(g)
                   /\ leaf.kind = "ttu" =>
                        \A k \in 1..Len(model[ir[1]].relations[leaf.tupleset].refs) :
                            << DecoratedType(model[ir[1]].relations[leaf.tupleset].refs[k])
                                  \o "#" \o leaf.relation,
                               into, "(" \o T \o "#" \o leaf.tupleset \o ")" >>
                               \in LineTriples(g)
                   /\ leaf.kind = "computed" =>
                        <<T \o "#" \o leaf.relation, into, "">> \in LineTriples(g)

\* a finished build of a relation defined as an Intersection or Difference
\* whose Direct child and whose TuplesetReference child each left an edge
C10_Witness ==
    /\ pc = "done"
    /\ \E ir \in IntersectionOrDifference :
          /\ \E leaf \in LeavesOf(model[ir[1]].relations[ir[2]].rewrite) : leaf.kind = "this"
          /\ \E leaf \in LeavesOf(model[ir[1]].relations[ir[2]].rewrite) : leaf.kind = "ttu"
          /\ HasLine(g, "user", RelationNode(ir[1], ir[2]), "", "")
          /\ \E i \in 1..Len(g.lines) :
                /\ LabelOf(g, g.lines[i].to) = RelationNode(ir[1], ir[2])
                /\ g.lines[i].headlabel = "(document#editor)"

\* the (from, to, context) triples of a sequence of AddEdge calls
CallTriples(cs) == {<<cs[k].from, cs[k].to, cs[k].headlabel>> : k \in 1..Len(cs)}

\* the edges a leaf contributes when it is the whole rewrite of relation r of
\* the i-th type
LeafCalls(i, r, leaf) ==
    LET T == model[i].type
    IN IF leaf.kind = "this"
       THEN ThisCalls(model[i].relations[r].refs, RelationNodeName(T, r))
       ELSE IF leaf.kind = "computed"
       THEN ComputedCalls(T, leaf.relation, RelationNodeName(T, r))
       ELSE TupleToUsersetCalls(model[i].relations[leaf.tupleset].refs, T,
                                leaf.tupleset, leaf.relation, RelationNodeName(T, r))

\* the lines into the node labelled `into`, as <<from label, context, style>>
LinesInto(gr, into) ==
    {<<LabelOf(gr, gr.lines[i].from), gr.lines[i].headlabel, gr.lines[i].style>> :
        i \in {k \in 1..Len(gr.lines) : LabelOf(gr, gr.lines[k].to) = into}}

\* C11: Union, Intersection and Difference nodes add no edge of their own and
\* every leaf below them contributes its own edges: the edges of a built graph
\* are exactly the edges of the leaves of its relations, whatever the set
\* operations above them.  The multigraph model gets the Direct edge from user
\* and both tupleset edges, and `a and b`, `a but not b`, `a or b` get the same
\* two computed edges.
C11_SetOperationsAddNoEdge ==
    pc = "done" =>
        /\ LineTriples(g) =
              UNION {UNION {CallTriples(LeafCalls(ir[1], ir[2], leaf)) :
                               leaf \in LeavesOf(model[ir[1]].relations[ir[2]].rewrite)} :
                        ir \in ModelRelations}
        /\ model = SortTypeDefinitions(Multigraph) =>
              LinesInto(g, "transition#can_apply") =
                 { <<"user", "", "">>,
                   <<"state#can_view", "(transition#start)", "">>,
                   <<"state#can_view", "(transition#end)", "">> }
        /\ model \in { SortTypeDefinitions(ComputedPair("union")),
                       SortTypeDefinitions(ComputedPair("intersection")),
                       SortTypeDefinitions(ComputedPair("difference")) } =>
              LinesInto(g, "document#c") =
                 { <<"document#a", "", "dashed">>, <<"document#b", "", "dashed">> }

\* the finished build of the multigraph model: an Intersection of a Direct and
\* two TuplesetReferences has left three edges into transition#can_apply
C11_Witness ==
    /\ pc = "done"
    /\ model = SortTypeDefinitions(Multigraph)
    /\ Cardinality(LinesInto(g, "transition#can_apply")) = 3
    /\ Len(g.lines) = 6

\* the buildGraph calls that returned a graph
Returned == {k \in 1..Len(builds) : builds[k].returned}

\* the graph has the ids and the numbering of a build that started from
\* nothing: node ids from 0, sequence numbers from 1
NumberedFromScratch(gr) ==
    /\ gr.nodes = 0..(Cardinality(gr.nodes) - 1)
    /\ \A k \in 1..Len(gr.lines) : gr.lines[k].label = k

\* C12: two builds of the same model return identical graphs (nodes, node ids,
\* edges, sequence numbers), before and after pruning, and the numbering of a
\* build starts from scratch whatever was built before it
C12_BuildsAreDeterministic ==
    /\ \A i \in Returned, j \in Returned :
          builds[i].input = builds[j].input =>
              /\ builds[i].built = builds[j].built
              /\ builds[i].pruned = builds[j].pruned
    /\ \A k \in Returned : NumberedFromScratch(builds[k].built)

\* the same model was built twice, and the builds left edges
C12_Witness ==
    /\ pc = "done"
    /\ Returned = {1, 2}
    /\ builds[1].input = builds[2].input
    /\ Len(builds[2].built.lines) >= 2

\* the names are in strictly ascending byte order
Ascending(names) ==
    \A a \in 1..Len(names), b \in 1..Len(names) :
        a < b => (Rank(names[a]) < Rank(names[b]))

\* C13: the build processes the TypeDefinitions in ascending type-name order
\* and the relations of a type in ascending relation-name order, and the
\* builds of a model return the same graph (nodes, node ids, edges, sequence
\* numbers) whatever the order of its TypeDefinitions
C13_OrderOfTypeDefinitionsIsImmaterial ==
    /\ pc \in {"types", "relations", "walk"} =>
          Ascending([i \in 1..Len(model) |-> model[i].type])
    /\ pc \in {"relations", "walk"} => Ascending(sortedRelationNames(model[ti]))
    /\ \A i \in Returned, j \in Returned :
          /\ builds[i].built = builds[j].built
          /\ builds[i].pruned = builds[j].pruned

\* a model of three types was built twice, its TypeDefinitions in different
\* orders, the second time in an order that is not the sorted one
C13_Witness ==
    /\ pc = "done"
    /\ Returned = {1, 2}
    /\ Len(model) = 3
    /\ builds[1].input # builds[2].input
    /\ builds[2].input # model
    /\ Len(builds[2].built.lines) >= 2

RECURSIVE CallLabels(_)
\* the labels the AddEdge calls cs request from AddOrGetNode, in order
CallLabels(cs) ==
    IF cs = << >> THEN << >>
    ELSE <<Head(cs).from, Head(cs).to>> \o CallLabels(Tail(cs))

\* the labels this step of a build requests from AddOrGetNode, in order
StepRequests ==
    IF pc = "types" /\ pc' = "relations"
    THEN <<model[ti].type, WildcardNodeName(model[ti].type)>>
    ELSE IF pc = "relations" /\ pc' = "walk"
    THEN <<RelationNodeName(model[ti].type, sortedRelationNames(model[ti])[ri])>>
    ELSE IF pc = "walk" /\ pc' = "walk"
    THEN CallLabels(calls')
    ELSE << >>

\* position of the first request of label l in the requests rq
FirstRequest(rq, l) ==
    CHOOSE a \in 1..Len(rq) : rq[a] = l /\ \A b \in 1..(a - 1) : rq[b] # l

\* the ids in use are 0..N-1 for N labels, and mapping and reverseMapping are
\* inverse to each other
NodeTablesDense(gr) ==
    /\ gr.nodes = 0..(Cardinality(DOMAIN gr.mapping) - 1)
    /\ DOMAIN gr.reverseMapping = gr.nodes
    /\ \A l \in DOMAIN gr.mapping :
          gr.mapping[l] \in gr.nodes /\ gr.reverseMapping[gr.mapping[l]] = l
    /\ \A n \in gr.nodes :
          gr.reverseMapping[n] \in DOMAIN gr.mapping /\ gr.mapping[gr.reverseMapping[n]] = n

\* a step of a build keeps the node of every label requested before and gives
\* the labels it requests for the first time the next ids, in request order
NodesInRequestOrder ==
    (pc \in {"types", "relations", "walk"} /\ pc' \in {"types", "relations", "walk"}) =>
        LET rq == StepRequests
            new == {rq[a] : a \in 1..Len(rq)} \ DOMAIN g.mapping
        IN /\ DOMAIN g'.mapping = DOMAIN g.mapping \cup {rq[a] : a \in 1..Len(rq)}
           /\ \A l \in DOMAIN g.mapping : g'.mapping[l] = g.mapping[l]
           /\ \A l \in new :
                 g'.mapping[l] = Cardinality(DOMAIN g.mapping)
                    + Cardinality({k \in new : FirstRequest(rq, k) < FirstRequest(rq, l)})

\* C14: during a build AddOrGetNode returns the existing node of a label that
\* was requested before and otherwise creates the node with the next unused
\* id: before pruning the ids in use are 0..N-1 in order of first request, no
\* two labels share an id, and mapping and reverseMapping are inverse
C14_NodeIdsDenseInRequestOrder ==
    /\ [](pc \in {"types", "relations", "walk", "panicked"} => NodeTablesDense(g))
    /\ [][NodesInRequestOrder]_vars

\* the handler has requested an existing label (the relation node) and a new
\* one, which got the next id
C14_Witness ==
    /\ pc = "walk"
    /\ calls # << >>
    /\ Cardinality(g.nodes) >= 4
    /\ g.mapping[calls[1].to] < g.mapping[calls[1].from]
    /\ g.mapping[calls[1].from] = Cardinality(g.nodes) - 1

\* the nodes that are source or target of some line (of a self-loop as well)
IncidentNodes(gr) ==
    {gr.lines[i].from : i \in 1..Len(gr.lines)} \cup {gr.lines[i].to : i \in 1..Len(gr.lines)}

\* this step is Writer's call of RemoveNodesWithNoEdges
Pruned == pc = "types" /\ pc' = "pruned"

\* C15: RemoveNodesWithNoEdges removes exactly the nodes that are neither
\* source nor target of any edge (a node whose only edge is a self-loop is
\* kept): afterwards every remaining node is incident to an edge, and every
\* edge with its sequence number, context and computed flag, and the id and
\* label of every remaining node, are unchanged
C15_PruneRemovesIsolatedNodesOnly ==
    [][Pruned =>
         /\ g'.nodes = g.nodes \cap IncidentNodes(g)
         /\ g.nodes \ g'.nodes = {n \in g.nodes : n \notin IncidentNodes(g)}
         /\ \A n \in g'.nodes : n \in IncidentNodes(g')
         /\ g'.lines = g.lines
         /\ g'.edgeCounter = g.edgeCounter
         /\ \A n \in g'.nodes :
               /\ g'.reverseMapping[n] = g.reverseMapping[n]
               /\ g'.mapping[g.reverseMapping[n]] = n]_vars

\* pruning has removed some node and has kept a node whose only edge is a
\* self-loop
C15_Witness ==
    /\ pc = "pruned"
    /\ Cardinality(g.nodes) < Cardinality(DOMAIN g.mapping)
    /\ \E n \in g.nodes :
          \A i \in 1..Len(g.lines) :
              (g.lines[i].from = n \/ g.lines[i].to = n) =>
                  (g.lines[i].from = n /\ g.lines[i].to = n)

\* the decorated-condition labels the relation r of the i-th type references:
\* the sources of its conditioned Direct refs, and the sources of its
\* TuplesetReferences over conditioned refs of the tupleset
DecoratedLabels(i, r) ==
    LET rel == model[i].relations[r]
        leaves == LeavesOf(rel.rewrite)
    IN {SourceDecorated(rel.refs[k]) :
           k \in {x \in 1..Len(rel.refs) :
                     rel.refs[x].condition # "" /\ \E leaf \in leaves : leaf.kind = "this"}}
       \cup UNION {{DecoratedType(model[i].relations[leaf.tupleset].refs[k])
                       \o "#" \o leaf.relation :
                       k \in {x \in 1..Len(model[i].relations[leaf.tupleset].refs) :
                                 model[i].relations[leaf.tupleset].refs[x].condition # ""}} :
                   leaf \in {x \in leaves : x.kind = "ttu"
                                               /\ x.tupleset \in DOMAIN model[i].relations}}

\* the labels claim C16 allows: type names, type wildcards, Type#Relation of
\* the relations defined in the model, decorated-condition labels referenced
AllowedLabels ==
    {model[i].type : i \in 1..Len(model)}
    \cup {model[i].type \o ":*" : i \in 1..Len(model)}
    \cup {RelationNode(ir[1], ir[2]) : ir \in ModelRelations}
    \cup UNION {DecoratedLabels(ir[1], ir[2]) : ir \in ModelRelations}

\* buildGraph has processed every TypeDefinition and returns
BuildReturns == pc = "types" /\ ti > Len(model)

\* C16: before pruning no node lies outside the type names, the type
\* wildcards, Type#Relation for the relations defined in the model and the
\* decorated-condition labels referenced, and the graph buildGraph returns has
\* exactly these nodes
C16_NodeSetBeforePruning ==
    /\ pc \in {"types", "relations", "walk"} => DOMAIN g.mapping \subseteq AllowedLabels
    /\ BuildReturns => DOMAIN g.mapping = AllowedLabels

\* the type system resolves the relation of every ComputedReference and the
\* tupleset relation of every TuplesetReference of the model on its own type
ReferencesResolve(m) ==
    \A i \in 1..Len(m) : \A r \in DOMAIN m[i].relations :
        \A leaf \in LeavesOf(m[i].relations[r].rewrite) :
            /\ leaf.kind = "computed" => ~GetRelationFails(m, m[i].type, leaf.relation)
            /\ leaf.kind = "ttu" => ~GetRelationFails(m, m[i].type, leaf.tupleset)

\* the last buildGraph call has not returned a graph
NothingReturned == builds # << >> /\ ~builds[Len(builds)].returned

\* C17: when the relation of a ComputedReference or the tupleset relation of a
\* TuplesetReference does not resolve on the current type, the build fails and
\* the Writer pipeline aborts: no graph is returned, none is pruned or
\* rendered, there is no cycle report, and nothing runs afterwards
C17_UnresolvedReferenceAborts ==
    /\ [](pc \in {"pruned", "done"} => ReferencesResolve(model))
    /\ [](pc = "panicked" => (~ReferencesResolve(model) /\ NothingReturned /\ info = NoInfo))
    /\ [][pc = "panicked" => FALSE]_vars

\* a build has failed on an unresolved reference after edges were added
C17_Witness ==
    /\ pc = "panicked"
    /\ Len(g.lines) >= 1
    /\ \E i \in 1..Len(model) : \E r \in DOMAIN model[i].relations :
          \E leaf \in LeavesOf(model[i].relations[r].rewrite) :
              leaf.kind = "ttu" /\ GetRelationFails(model, model[i].type, leaf.tupleset)

\* the rewrite is ComputedReference(next), alone or as one of the two children
\* of a union, intersection or difference whose other child is Direct
RingStep(rel, next) ==
    \/ rel.rewrite = ComputedUserset(next) /\ rel.refs = << >>
    \/ /\ rel.rewrite.kind \in {"union", "intersection", "difference"}
       /\ rel.refs = DirectUser
       /\ rel.rewrite.child \in { <<This, ComputedUserset(next)>>,
                                  <<ComputedUserset(next), This>> }

RECURSIVE Orbit(_, _, _)
\* the relations reached from r by following next, r included
Orbit(next, r, seen) ==
    IF r \in seen THEN seen ELSE Orbit(next, next[r], seen \cup {r})

\* the relations of typedef form one ring of ComputedReferences r1 -> ... -> rn -> r1
IsRing(typedef) ==
    LET R == DOMAIN typedef.relations
    IN /\ Cardinality(R) >= 2
       /\ \E next \in [R -> R] :
             /\ \A r \in R : RingStep(typedef.relations[r], next[r])
             /\ \A r \in R : Orbit(next, r, {}) = R

\* the model is one type whose relations form a ring, with or without type user
IsRingModel(m) ==
    \E i \in 1..Len(m) :
        /\ IsRing(m[i])
        /\ \A j \in 1..Len(m) : j # i => m[j] = UserType

\* C18: a type whose relations r1..rn (n >= 2) form a ring of
\* ComputedReferences, each relation with or without a union, intersection or
\* difference with a Direct [user], yields 1 definitive cycle and 0 possible
\* cycles
C18_ComputedRingIsOneDefinitiveCycle ==
    (pc = "done" /\ IsRingModel(model)) =>
        /\ info.definitiveCycles = 1
        /\ info.possibleCycles = 0
        /\ Len(info.cycles) = 1

\* the report on a ring of three relations, one of them an intersection with
\* [user]
C18_Witness ==
    /\ pc = "done"
    /\ IsRingModel(model)
    /\ \E i \in 1..Len(model) :
          /\ Cardinality(DOMAIN model[i].relations) = 3
          /\ \E r \in DOMAIN model[i].relations :
                model[i].relations[r].rewrite.kind = "intersection"
    /\ info.definitiveCycles = 1

RECURSIVE SimplePaths(_, _)
\* the paths that extend path by lines of gr, through distinct nodes with ids
\* greater than that of its first node
SimplePaths(gr, path) ==
    {path} \cup
    UNION {SimplePaths(gr, Append(path, v)) :
              v \in {w \in gr.nodes :
                        /\ w > path[1]
                        /\ \A k \in 1..Len(path) : path[k] # w
                        /\ Lines(gr, path[Len(path)], w) # {}}}

\* the elementary directed cycles of gr, each as the sequence of its distinct
\* nodes that starts at its least id (a self-loop is the one-node cycle)
ElementaryCycles(gr) ==
    UNION {{p \in SimplePaths(gr, <<s>>) : Lines(gr, p[Len(p)], s) # {}} : s \in gr.nodes}

\* the sequence rotated so that its element number k comes first
Rotate(p, k) == SubSeq(p, k, Len(p)) \o SubSeq(p, 1, k - 1)

\* a reported cycle (labels, the first repeated last) as the sequence of its
\* node ids that starts at its least id
CanonicalCycle(gr, cycle) ==
    LET ids == [k \in 1..(Len(cycle) - 1) |-> gr.mapping[cycle[k]]]
        least == CHOOSE k \in 1..Len(ids) : \A j \in 1..Len(ids) : ids[k] <= ids[j]
    IN Rotate(ids, least)

\* C19: the report lists every elementary directed cycle of the graph exactly
\* once, rotations not being listed separately and none being missed: four
\* relations that are each the union of the other three give 20 cycles, three
\* mutually referencing relations and a sink give 5
C19_EveryElementaryCycleOnce ==
    pc = "done" =>
        /\ {CanonicalCycle(g, info.cycles[k]) : k \in 1..Len(info.cycles)} = ElementaryCycles(g)
        /\ Len(info.cycles) = Cardinality(ElementaryCycles(g))
        /\ model = SortTypeDefinitions(Union3) => Len(info.cycles) = 20
        /\ model = SortTypeDefinitions(Union4) => Len(info.cycles) = 5

\* C20: for `editor: [user, document#viewer]`, `viewer: [user, document#viewer]
\* or editor` on type document the report has 1 possible cycle and 0 definitive
\* cycles: the editor / viewer loop, whose hop document#viewer ->
\* document#editor is not computed
C20_Scenario1IsOnePossibleCycle ==
    (pc = "done" /\ model = SortTypeDefinitions(Scenario1)) =>
        /\ info.possibleCycles = 1
        /\ info.definitiveCycles = 0
        /\ info.cycles = << <<"document#editor", "document#viewer", "document#editor">> >>
        /\ HasLine(g, "document#viewer", "document#editor", "", "")
        /\ HasLine(g, "document#editor", "document#viewer", "", "dashed")

\* the report on the model of scenario 1, whose graph has the loop and the
\* self-loop on document#viewer
C20_Witness ==
    /\ pc = "done"
    /\ model = SortTypeDefinitions(Scenario1)
    /\ HasLine(g, "document#viewer", "document#viewer", "", "")
    /\ Len(info.cycles) = 1

\* C21: the build does not modify its input: once buildGraph has returned, the
\* TypeDefinitions of the model are in the order, and have the content, they
\* had when it was called
C21_InputIsNotModified ==
    (pc \in {"pruned", "done"} /\ builds # << >>) =>
        model = builds[Len(builds)].input

\* the graph the last buildGraph call returned, before Writer pruned it
Unpruned == builds[Len(builds)].built

\* the set of the cycles of a report
CycleSet(report) == {report.cycles[k] : k \in 1..Len(report.cycles)}

\* C22: pruning is immaterial to the cycle analysis: the report computed on
\* the graph after RemoveNodesWithNoEdges has the same number of cycles, the
\* same possible and definitive counts and the same set of cycles as the
\* report computed on the unpruned graph
C22_PruningIsImmaterialToCycles ==
    pc = "done" =>
        LET unpruned == parseCycleInformation(Unpruned)
        IN /\ Len(info.cycles) = Len(unpruned.cycles)
           /\ info.possibleCycles = unpruned.possibleCycles
           /\ info.definitiveCycles = unpruned.definitiveCycles
           /\ CycleSet(info) = CycleSet(unpruned)

\* a report with a cycle on a graph from which pruning removed a node with an
\* id below those of the cycle
C22_Witness ==
    /\ pc = "done"
    /\ info.cycles # << >>
    /\ \E n \in Unpruned.nodes \ g.nodes :
          \A k \in 1..Len(info.cycles[1]) : n < g.mapping[info.cycles[1][k]]

\* relation r of the i-th type is referenced by a ComputedReference of its relation R
ComputedReference(i, r, R) ==
    \E leaf \in LeavesOf(model[i].relations[R].rewrite) :
        leaf.kind = "computed" /\ leaf.relation = r

RECURSIVE ComputedReach(_, _, _)
\* the relations of the i-th type reached from the frontier through
\* ComputedReferences (r to every R that is defined with ComputedReference(r))
ComputedReach(i, frontier, seen) ==
    IF frontier \subseteq seen THEN seen
    ELSE ComputedReach(i,
            {R \in DOMAIN model[i].relations : \E r \in frontier : ComputedReference(i, r, R)},
            seen \cup frontier)

\* some cycle can be traversed using the edges of ComputedReferences only
HasComputedCycle ==
    \E i \in 1..Len(model) : \E r \in DOMAIN model[i].relations :
        r \in ComputedReach(i,
                 {R \in DOMAIN model[i].relations : ComputedReference(i, r, R)}, {})

\* C23: whenever the built graph contains a cycle that can be traversed using
\* computed edges only, the report has definitiveCycles >= 1, also when a hop
\* of the cycle has a parallel non-computed edge and when the edge of a hop
\* was first inserted by a Direct ref
C23_ComputedCycleIsDefinitive ==
    (pc = "done" /\ HasComputedCycle) => info.definitiveCycles >= 1

\* the labels Type#Relation of the relations defined in the model
RelationNodes == {RelationNode(ir[1], ir[2]) : ir \in ModelRelations}

\* the plain type names, the wildcard labels, and the decorated-condition
\* labels the model references
NeverTargets ==
    {model[i].type : i \in 1..Len(model)}
    \cup {model[i].type \o ":*" : i \in 1..Len(model)}
    \cup UNION {DecoratedLabels(ir[1], ir[2]) : ir \in ModelRelations}

\* the labels that are the target of some line
TargetLabels(gr) == {LabelOf(gr, gr.lines[i].to) : i \in 1..Len(gr.lines)}

\* this step is an invocation of the rewrite handler that returns
HandlerReturns == pc = "walk" /\ pc' = "walk"

\* C24: every edge added during a build has as its target the node T#R of the
\* relation being evaluated; plain type nodes, wildcard nodes and
\* decorated-condition nodes never have an incoming edge and never appear in
\* a reported cycle
C24_TargetIsCurrentRelation ==
    /\ [][HandlerReturns =>
            /\ \A k \in 1..Len(calls') : calls'[k].to = CurrentRelationNodeName
            /\ \A i \in (Len(g.lines) + 1)..Len(g'.lines) :
                  LabelOf(g', g'.lines[i].to) = CurrentRelationNodeName]_vars
    /\ [](/\ TargetLabels(g) \subseteq RelationNodes
          /\ TargetLabels(g) \cap NeverTargets = {}
          /\ pc = "done" =>
                \A k \in 1..Len(info.cycles) : \A n \in 1..Len(info.cycles[k]) :
                    info.cycles[k][n] \in RelationNodes \ NeverTargets)

\* a report with a cycle on a graph that has an edge from a wildcard node or
\* from a decorated-condition node
C24_Witness ==
    /\ pc = "done"
    /\ info.cycles # << >>
    /\ \E i \in 1..Len(g.lines) :
          LabelOf(g, g.lines[i].from) \in {" user[with condition1]", " user[with condition1]:*",
                                           "user:*"}

\* C25: both counts of a report are within range: 0 <= possibleCycles <=
\* number of reported cycles and 0 <= definitiveCycles <= number of reported
\* cycles
C25_CountsWithinRange ==
    pc = "done" =>
        /\ 0 <= info.possibleCycles
        /\ info.possibleCycles <= Len(info.cycles)
        /\ 0 <= info.definitiveCycles
        /\ info.definitiveCycles <= Len(info.cycles)

\* C26: every edge source X#r created by a Direct sub-relation ref or by a
\* TuplesetReference is the relation node X#r, also when the RelatedTypeRef
\* carries a condition: the Direct ref X#r of relation R of type T gives a line
\* X#r -> T#R, the TuplesetReference(ts, r) gives a line X#r -> T#R with context
\* (T#ts) for every related type X of ts, and a relation assignable from its
\* own userset under a condition has a loop on its node
C26_SourceIsRelationNode ==
    pc = "done" =>
        \A ir \in ModelRelations :
            \A leaf \in LeavesOf(model[ir[1]].relations[ir[2]].rewrite) :
                LET T == model[ir[1]].type
                    into == RelationNode(ir[1], ir[2])
                    refs == model[ir[1]].relations[ir[2]].refs
                IN /\ leaf.kind = "this" =>
                        \A k \in 1..Len(refs) :
                            refs[k].relation # "" =>
                                <<RelationNodeName(refs[k].type, refs[k].relation), into, "">>
                                    \in LineTriples(g)
                   /\ leaf.kind = "ttu" =>
                        \A k \in 1..Len(model[ir[1]].relations[leaf.tupleset].refs) :
                            << RelationNodeName(model[ir[1]].relations[leaf.tupleset].refs[k].type,
                                                leaf.relation),
                               into, ConditionedOnNodeName(T, leaf.tupleset) >>
                               \in LineTriples(g)

\* C27: after any sequence of AddOrGetNode, AddEdge and RemoveNodesWithNoEdges
\* calls the label-to-id table contains exactly the labels of the nodes
\* present in the graph, one label per node, and AddOrGetNode always returns a
\* node of the graph (AddEdge never gets a removed node)
C27_MappingHoldsPresentNodesOnly ==
    /\ \A l \in DOMAIN g.mapping :
          g.mapping[l] \in g.nodes /\ g.reverseMapping[g.mapping[l]] = l
    /\ Cardinality(DOMAIN g.mapping) = Cardinality(g.nodes)
    /\ \A l \in DOMAIN g.mapping : AddOrGetNode(g, l, Nil).n \in g.nodes
    /\ pc # "panicked"

=============================================================================
